---------------------------- MODULE Spec2Model ----------------------------
(***************************************************************************)
(* A model of wagtail/wagtailsearch/index.py: the Indexed capability       *)
(* (content types, search field lists), the field descriptors (BaseField,  *)
(* SearchField, FilterField, RelatedFields), the attribute resolver        *)
(* get_attribute, and the synchronizer (insert_or_update_object,           *)
(* remove_object).                                                         *)
(*                                                                         *)
(* Four specifications share the module, one per part of the file:         *)
(*   SpecSync    the synchronizer and its backends                         *)
(*   SpecTypes   the class hierarchy and the content types                 *)
(*   SpecFields  descriptor construction and get_search_fields             *)
(*   SpecValue   value extraction (get_value, get_attribute)               *)
(* The variables of the parts a specification does not use keep their      *)
(* initial value.                                                          *)
(***************************************************************************)
EXTENDS Integers, Sequences, FiniteSets, TLC

VARIABLES
    \* ---- synchronizer ----
    backends,      \* get_search_backends_with_name(with_auto_update=True): the names, in order
    store,         \* the object store: the rows <<type, pk>> that exist
    event,         \* the handler running or last run: [op, instance], or None
    indexed,       \* the handler's local indexed_instance
    pc,            \* "idle", or the loop the handler is in: "add" / "delete"
    idx,           \* position of the loop in backends
    calls,         \* backend calls issued by the handler, in order
    logged,        \* logger.exception records written by the handler
    result,        \* "none" (nothing ran), "running", "returned", "raised"
    queries,       \* existence queries the handler sent to the object store
    \* ---- class hierarchy ----
    classes,       \* the classes defined so far; classes[1] is Indexed, classes[2] models.Model
    tcall,         \* the last classmethod call: [fn, cls, value], or None
    \* ---- search field list ----
    search_fields, \* cls.search_fields: the descriptors, in declaration order
    declared,      \* the arguments each descriptor was constructed with
    fcall,         \* the last get_search_fields() call: [value], or None
    \* ---- value extraction ----
    vmeta,         \* obj.__class__._meta: the declared fields, name -> field
    vobj,          \* the instance values are extracted from
    vfield,        \* the descriptor constructed, or None
    vdeclared,     \* the arguments it was constructed with, or None
    vcall          \* the last call on the descriptor: [fn, outcome], or None

syncVars == <<backends, store, event, indexed, pc, idx, calls, logged, result, queries>>

typeVars == <<classes, tcall>>

fieldVars == <<search_fields, declared, fcall>>

valueVars == <<vmeta, vobj, vfield, vdeclared, vcall>>

vars == <<syncVars, typeVars, fieldVars, valueVars>>

\* Python's None.
None == [k |-> "None"]

(***************************************************************************)
(* Bounds                                                                  *)
(***************************************************************************)
MaxBackends == 2
MaxClasses == 3     \* classes defined besides Indexed and models.Model
MaxFields == 3      \* descriptors in a search_fields list
MaxPath == 3        \* segments in a source path

(***************************************************************************)
(* Helpers                                                                 *)
(***************************************************************************)
Range(s) == {s[i] : i \in 1..Len(s)}

Min(S) == CHOOSE x \in S : \A y \in S : x <= y

\* The sequences of distinct elements of S of length at most n.
DistinctSeqs(S, n) ==
    {s \in UNION {[1..k -> S] : k \in 0..n} :
        \A i, j \in 1..Len(s) : i # j => s[i] # s[j]}

(***************************************************************************)
(* Synchronizer: lines 73-137                                              *)
(***************************************************************************)
ModelTypes == {"Page", "EventPage"}
Pks == {1, 2}
BackendNames == 1..MaxBackends

\* A model instance: its class, its primary key, and what its
\* get_indexed_instance() method returns (line 83-88: self by default, a
\* model may override it to return a more specific instance, or None).
Ref(t, p) == [k |-> "instance", type |-> t, pk |-> p]
Refs == {Ref(t, p) : t \in ModelTypes, p \in Pks}
Instances == {[k |-> "instance", type |-> t, pk |-> p, specific |-> s] :
                 t \in ModelTypes, p \in Pks, s \in Refs \cup {None}}

\* cls.get_indexed_objects() (line 73-81): cls.objects.all(); the
\* select_related / prefetch_related added do not change which rows it holds.
get_indexed_objects(cls) == {p \in Pks : <<cls, p>> \in store}

\* A check made against the class of the instance passed in.
exists_in_passed_type(instance, indexed_instance) ==
    indexed_instance.pk \in get_indexed_objects(instance.type)

\* type(indexed_instance).get_indexed_objects().filter(pk=...).exists(), line 110
exists_in_indexed_objects(instance, indexed_instance) ==
    indexed_instance.pk \in get_indexed_objects(indexed_instance.type)

\* get_indexed_instance(instance, check_exists), lines 104-113
get_indexed_instance(instance, check_exists) ==
    LET indexed_instance == instance.specific IN
    IF indexed_instance = None THEN None
    ELSE IF check_exists /\ ~exists_in_indexed_objects(instance, indexed_instance)
         THEN None
         ELSE indexed_instance

\* The existence queries get_indexed_instance sends (line 110: `and` does
\* not evaluate the query when check_exists is false).
exists_queries(instance, check_exists) ==
    IF instance.specific # None /\ check_exists THEN 1 ELSE 0

\* check_exists as insert_or_update_object passes it (line 117: the default)
insert_check_exists == TRUE

\* A remove_object that keeps the default check.
remove_checks_exists == TRUE

\* check_exists as remove_object passes it (line 129)
remove_check_exists == FALSE

\* A handler without the except clause.
except_nothing(raises) == FALSE

\* `except Exception` (lines 123, 135): the failures a backend raises derive
\* from Exception, and the clause catches them all.
except_Exception(raises) == raises

\* The handler's entry: lines 117-119 / 129-131. `if indexed_instance:` is
\* the test for None: a model instance is true.
Enter(op, instance, check_exists) ==
    LET ii == get_indexed_instance(instance, check_exists) IN
    /\ pc = "idle"
    /\ event' = [op |-> op, instance |-> instance]
    /\ indexed' = ii
    /\ queries' = exists_queries(instance, check_exists)
    /\ calls' = <<>>
    /\ logged' = <<>>
    /\ idx' = 1
    /\ IF ii = None
       THEN pc' = "idle" /\ result' = "returned"
       ELSE pc' = (IF op = "save" THEN "add" ELSE "delete") /\ result' = "running"
    /\ UNCHANGED <<backends, store, typeVars, fieldVars, valueVars>>

\* insert_or_update_object(instance), lines 116-125
insert_or_update_object(instance) == Enter("save", instance, insert_check_exists)

\* remove_object(instance), lines 128-137
remove_object(instance) == Enter("delete", instance, remove_check_exists)

\* One iteration of the loop over the backends: backend.add / backend.delete
\* either returns or raises; lines 120-125 and 132-137.
backend_call(raises) ==
    /\ pc \in {"add", "delete"}
    /\ idx <= Len(backends)
    /\ calls' = Append(calls, [backend |-> backends[idx], op |-> pc,
                               instance |-> indexed, raised |-> raises])
    /\ IF ~raises
       THEN /\ idx' = idx + 1
            /\ UNCHANGED <<pc, result, logged>>
       ELSE IF except_Exception(raises)
            THEN /\ logged' = Append(logged, [backend |-> backends[idx], op |-> pc,
                                              instance |-> indexed])
                 /\ idx' = idx + 1
                 /\ UNCHANGED <<pc, result>>
            ELSE /\ pc' = "idle"
                 /\ result' = "raised"
                 /\ UNCHANGED <<idx, logged>>
    /\ UNCHANGED <<backends, store, event, indexed, queries, typeVars, fieldVars, valueVars>>

\* The loop is exhausted: the handler returns.
handler_return ==
    /\ pc \in {"add", "delete"}
    /\ idx > Len(backends)
    /\ pc' = "idle"
    /\ result' = "returned"
    /\ UNCHANGED <<backends, store, event, indexed, idx, calls, logged, queries, typeVars, fieldVars, valueVars>>

SyncIdle ==
    /\ backends = <<>>
    /\ store = {}
    /\ event = None
    /\ indexed = None
    /\ pc = "idle"
    /\ idx = 1
    /\ calls = <<>>
    /\ logged = <<>>
    /\ result = "none"
    /\ queries = 0

TypesIdle ==
    /\ classes = <<>>
    /\ tcall = None

FieldsIdle ==
    /\ search_fields = <<>>
    /\ declared = <<>>
    /\ fcall = None

ValueIdle ==
    /\ vmeta = <<>>
    /\ vobj = None
    /\ vfield = None
    /\ vdeclared = None
    /\ vcall = None

SyncInit ==
    /\ TypesIdle
    /\ FieldsIdle
    /\ ValueIdle
    /\ backends \in DistinctSeqs(BackendNames, MaxBackends)
    /\ store \in SUBSET (ModelTypes \X Pks)
    /\ event = None
    /\ indexed = None
    /\ pc = "idle"
    /\ idx = 1
    /\ calls = <<>>
    /\ logged = <<>>
    /\ result = "none"
    /\ queries = 0

SyncNext ==
    \/ \E instance \in Instances : insert_or_update_object(instance)
    \/ \E instance \in Instances : remove_object(instance)
    \/ \E raises \in BOOLEAN : backend_call(raises)
    \/ handler_return

SpecSync == SyncInit /\ [][SyncNext]_vars

(***************************************************************************)
(* Strings. A string is the sequence of its characters, so that lower()    *)
(* and + are computed as Python computes them.                             *)
(***************************************************************************)
LowerChar(c) ==
    CASE c = "A" -> "a" [] c = "B" -> "b" [] c = "C" -> "c" [] c = "D" -> "d"
      [] c = "E" -> "e" [] c = "M" -> "m" [] c = "P" -> "p" [] c = "S" -> "s"
      [] OTHER -> c

\* str.lower()
Lower(str) == [i \in 1..Len(str) |-> LowerChar(str[i])]

(***************************************************************************)
(* Class hierarchy and content types: lines 19-47                          *)
(***************************************************************************)
\* classes[1] and classes[2]: index.Indexed (line 19) and models.Model.
IndexedCls == [name |-> <<"I","n","d","e","x","e","d">>, app_label |-> None,
               bases |-> <<>>, abstract |-> FALSE]
ModelCls == [name |-> <<"M","o","d","e","l">>, app_label |-> None,
             bases |-> <<>>, abstract |-> FALSE]
Builtins == <<IndexedCls, ModelCls>>
IndexedId == Len(<<IndexedCls>>)
ModelId == Len(Builtins)

\* The name and the app label a class gets, by the order of its definition.
ClassNamePool ==
    << <<"P","a","g","e">>, <<"E","v","e","n","t">>, <<"D","o","c">>,
       <<"B","l","o","g">>, <<"M","a","p">>, <<"A","d">> >>
AppLabelPool == << <<"c","m","s">>, <<"S","h","o","p">> >>
NameFor(i) == ClassNamePool[((i - 1) % Len(ClassNamePool)) + 1]
AppLabelFor(i) == AppLabelPool[((i - 1) % Len(AppLabelPool)) + 1]

\* The classes c derives from, c included.
RECURSIVE Ancestors(_)
Ancestors(c) ==
    {c} \cup UNION {Ancestors(classes[c].bases[i]) : i \in 1..Len(classes[c].bases)}

\* issubclass(c, d)
issubclass(c, d) == d \in Ancestors(c)

\* A class object, as a value that can be compared with None.
ClassRef(c) == [k |-> "class", id |-> c]

\* The test of line 23.
base_matches(base, require_model) ==
    issubclass(base, IndexedId) /\ (issubclass(base, ModelId) \/ require_model = FALSE)

\* The loop of lines 22-24 from position i on: the first base that matches,
\* None when the loop ends without returning.
RECURSIVE parent_from(_, _, _)
parent_from(cls, i, require_model) ==
    IF i > Len(classes[cls].bases) THEN None
    ELSE IF base_matches(classes[cls].bases[i], require_model)
         THEN ClassRef(classes[cls].bases[i])
         ELSE parent_from(cls, i + 1, require_model)

\* Indexed.indexed_get_parent(cls, require_model=True), lines 20-24
indexed_get_parent(cls, require_model) == parent_from(cls, 1, require_model)

\* (cls._meta.app_label + '_' + cls.__name__).lower(), lines 29 and 47
local_content_type(cls) ==
    Lower(classes[cls].app_label \o <<"_">> \o classes[cls].name)

\* A join that puts the class's own content type first.
join_child_first(parent_content_type, content_type) ==
    content_type \o <<"_">> \o parent_content_type

\* parent_content_type + '_' + content_type, line 35
join_content_type(parent_content_type, content_type) ==
    parent_content_type \o <<"_">> \o content_type

\* Indexed.indexed_get_content_type(cls), lines 26-37
RECURSIVE indexed_get_content_type(_)
indexed_get_content_type(cls) ==
    LET content_type == local_content_type(cls)
        parent == indexed_get_parent(cls, TRUE)
    IN IF parent # None
       THEN join_content_type(indexed_get_content_type(parent.id), content_type)
       ELSE content_type

\* Indexed.indexed_get_toplevel_content_type(cls), lines 39-47
indexed_get_toplevel_content_type(cls) ==
    LET parent == indexed_get_parent(cls, TRUE)
    IN IF parent # None
       THEN indexed_get_content_type(parent.id)
       ELSE local_content_type(cls)

\* Python refuses a class whose bases list a class before one of its own
\* subclasses (no consistent method resolution order), or a class twice.
BasesAllowed(bases) ==
    /\ bases # <<>>
    /\ \A i, j \in 1..Len(bases) : i < j =>
          /\ bases[i] # bases[j]
          /\ ~issubclass(bases[j], bases[i])

\* The lists of one or two bases among the classes defined so far.
BaseLists ==
    LET ids == 1..Len(classes) IN
    {<<a>> : a \in ids} \cup {<<a, b>> : a \in ids, b \in ids}

\* A class statement: class <name>(<bases>), with Meta.abstract for a model.
DefineClass(bases, abstract) ==
    /\ Len(classes) < Len(Builtins) + MaxClasses
    /\ BasesAllowed(bases)
    /\ abstract => \E i \in 1..Len(bases) : issubclass(bases[i], ModelId)
    /\ classes' = Append(classes,
                         [name |-> NameFor(Len(classes) - Len(Builtins) + 1),
                          app_label |-> AppLabelFor(Len(classes) - Len(Builtins) + 1),
                          bases |-> bases, abstract |-> abstract])
    /\ tcall' = None
    /\ UNCHANGED <<syncVars, fieldVars, valueVars>>

\* The classmethods are those of Indexed, and read cls._meta, which a model
\* class has. The class called is the one defined last: the classes before
\* it were each the last one once, and a later definition does not change
\* what they derive from.
Callable(cls) ==
    /\ cls > Len(Builtins)
    /\ cls = Len(classes)
    /\ issubclass(cls, IndexedId)
    /\ issubclass(cls, ModelId)

CallContentType(cls) ==
    /\ Callable(cls)
    /\ tcall' = [fn |-> "indexed_get_content_type", cls |-> cls,
                 value |-> indexed_get_content_type(cls)]
    /\ UNCHANGED <<classes, syncVars, fieldVars, valueVars>>

CallToplevelContentType(cls) ==
    /\ Callable(cls)
    /\ tcall' = [fn |-> "indexed_get_toplevel_content_type", cls |-> cls,
                 value |-> indexed_get_toplevel_content_type(cls)]
    /\ UNCHANGED <<classes, syncVars, fieldVars, valueVars>>

TypesInit ==
    /\ SyncIdle
    /\ FieldsIdle
    /\ ValueIdle
    /\ classes = Builtins
    /\ tcall = None

TypesNext ==
    \/ \E bases \in BaseLists, abstract \in BOOLEAN : DefineClass(bases, abstract)
    \/ \E cls \in 1..Len(classes) : CallContentType(cls)
    \/ \E cls \in 1..Len(classes) : CallToplevelContentType(cls)

SpecTypes == TypesInit /\ [][TypesNext]_vars

(***************************************************************************)
(* Field descriptors and get_search_fields: lines 49-56, 156-168, 221-235  *)
(***************************************************************************)
\* str.split(sep): the pieces of str between the occurrences of sep.
RECURSIVE SplitFrom(_, _, _, _)
SplitFrom(str, sep, i, piece) ==
    IF i > Len(str) THEN <<piece>>
    ELSE IF str[i] = sep
         THEN <<piece>> \o SplitFrom(str, sep, i + 1, <<>>)
         ELSE SplitFrom(str, sep, i + 1, Append(piece, str[i]))

Split(str, sep) == SplitFrom(str, sep, 1, <<>>)

\* kwargs.get('source', self.field_name), line 163
kwargs_get_source(kwargs, field_name) ==
    IF "source" \in DOMAIN kwargs THEN kwargs.source ELSE field_name

\* A constructor that never swaps.
never_swap(alias, field_name) == FALSE

\* if self.alias != self.field_name, line 167
needs_swap(alias, field_name) == alias # field_name

\* BaseField.__init__(self, field_name, **kwargs), lines 159-168, for the
\* class cls (SearchField or FilterField). id is the object's identity.
BaseField_init(id, cls, field_name, kwargs) ==
    LET source == kwargs_get_source(kwargs, field_name)
        source_attrs == Split(source, ".")
        alias == source_attrs[1]
        swap == needs_swap(alias, field_name)
    IN [id |-> id, cls |-> cls, kwargs |-> kwargs,
        source |-> source, source_attrs |-> source_attrs,
        field_name |-> IF swap THEN alias ELSE field_name,
        alias |-> IF swap THEN field_name ELSE alias]

\* RelatedFields.__init__(self, field_name, fields), lines 233-235
RelatedFields_init(id, field_name, fields) ==
    [id |-> id, cls |-> "RelatedFields", field_name |-> field_name, fields |-> fields]

\* The constructor call a declaration makes.
Construct(id, d) ==
    IF d.cls = "RelatedFields"
    THEN RelatedFields_init(id, d.field_name, <<>>)
    ELSE BaseField_init(id, d.cls, d.field_name, d.kwargs)

\* A dict without the item assignment's override: setdefault.
dict_setdefault(dict, key, value) ==
    [k \in DOMAIN dict \cup {key} |-> IF k \in DOMAIN dict THEN dict[k] ELSE value]

\* dict[key] = value
dict_setitem(dict, key, value) ==
    [k \in DOMAIN dict \cup {key} |-> IF k = key THEN value ELSE dict[k]]

\* The key of line 54: (type(field), field.field_name)
field_key(field) == <<field.cls, field.field_name>>

\* The dict of get_search_fields after the first n fields, lines 51-54
RECURSIVE search_fields_dict(_, _)
search_fields_dict(fields, n) ==
    IF n = 0 THEN <<>>
    ELSE dict_setitem(search_fields_dict(fields, n - 1),
                      field_key(fields[n]), fields[n])

\* list(dict.values()), line 56. `search_fields = {}` is a plain dict: on
\* the interpreters the module is written for (it imports from __future__
\* and uses collections.Mapping) the order of its values is not specified,
\* so every order is an outcome.
dict_values_lists(dict) ==
    LET keys == DOMAIN dict
        n == Cardinality(keys)
        orders == {o \in [1..n -> keys] : \A i, j \in 1..n : i # j => o[i] # o[j]}
    IN {[i \in 1..n |-> dict[o[i]]] : o \in orders}

\* Indexed.get_search_fields(cls), lines 49-56: the lists it may return.
get_search_fields(fields) ==
    dict_values_lists(search_fields_dict(fields, Len(fields)))

\* The declarations the model draws from.
FieldNames == {<<"a">>, <<"b">>}
Sources == {<<"x", ".", "y">>, <<"x", ".", "z">>}
Declarations ==
    {[cls |-> c, field_name |-> n, kwargs |-> kw] :
        c \in {"SearchField", "FilterField"}, n \in FieldNames,
        kw \in {<<>>} \cup {[source |-> src] : src \in Sources}}
    \cup {[cls |-> "RelatedFields", field_name |-> <<"a">>]}

\* One more entry of the class's search_fields list.
Declare(d) ==
    /\ Len(search_fields) < MaxFields
    /\ fcall = None
    /\ search_fields' = Append(search_fields, Construct(Len(search_fields) + 1, d))
    /\ declared' = Append(declared, d)
    /\ UNCHANGED <<fcall, syncVars, typeVars, valueVars>>

CallGetSearchFields ==
    /\ fcall = None
    /\ \E value \in get_search_fields(search_fields) : fcall' = [value |-> value]
    /\ UNCHANGED <<search_fields, declared, syncVars, typeVars, valueVars>>

FieldsInit ==
    /\ SyncIdle
    /\ TypesIdle
    /\ ValueIdle
    /\ search_fields = <<>>
    /\ declared = <<>>
    /\ fcall = None

FieldsNext ==
    \/ \E d \in Declarations : Declare(d)
    \/ CallGetSearchFields

SpecFields == FieldsInit /\ [][FieldsNext]_vars

(***************************************************************************)
(* Value extraction: get_attribute (lines 140-153), BaseField (170-215),   *)
(* RelatedFields (237-247)                                                 *)
(***************************************************************************)
\* The attribute names of the model: the instance has x, what x holds has
\* y, and so on.
SegNames == << <<"x">>, <<"y">>, <<"z">>, <<"w">>, <<"v">> >>
SegName(i) == SegNames[((i - 1) % Len(SegNames)) + 1]

\* Python values: None, a string, an object with attributes, a mapping
\* (collections.Mapping) with items, a callable. An attribute whose slot is
\* Dangling is a relation whose target row is gone: reading it raises
\* ObjectDoesNotExist.
Str == [k |-> "str"]
Pk == [k |-> "pk"]
Dangling == [k |-> "dangling"]
Obj(attrs) == [k |-> "object", attrs |-> attrs]
Map(items) == [k |-> "mapping", items |-> items]
Method(returns) == [k |-> "callable", returns |-> returns]
Leaves == {None, Str}

\* The values that can be found after resolving `level` segments.
RECURSIVE ValuesAt(_)
ValuesAt(level) ==
    IF level >= MaxPath THEN Leaves
    ELSE LET name == SegName(level + 1)
             below == ValuesAt(level + 1)
         IN Leaves
            \cup {Obj(<<>>)} \cup {Obj(name :> v) : v \in below \cup {Dangling}}
            \cup {Map(<<>>)} \cup {Map(name :> v) : v \in below}

\* The outcome of a call: a value returned or an exception raised; lookups
\* counts the attribute and item reads get_attribute made.
Return(value, lookups) == [t |-> "return", value |-> value, lookups |-> lookups]
Raise(exc, lookups) == [t |-> "raise", exc |-> exc, lookups |-> lookups]

\* getattr(instance, attr)
getattr(instance, attr) ==
    IF instance.k = "object" /\ attr \in DOMAIN instance.attrs
    THEN IF instance.attrs[attr] = Dangling
         THEN Raise("ObjectDoesNotExist", 1)
         ELSE Return(instance.attrs[attr], 1)
    ELSE Raise("AttributeError", 1)

\* Lines 146-149: instance[attr] for a mapping, getattr otherwise.
lookup(instance, attr) ==
    IF instance.k = "mapping"
    THEN IF attr \in DOMAIN instance.items
         THEN Return(instance.items[attr], 1)
         ELSE Raise("KeyError", 1)
    ELSE getattr(instance, attr)

\* `if instance is None`, line 142
is_none(instance) == instance = None

\* A resolver without the except clause.
except_no_lookup_error(exc) == FALSE

\* `except ObjectDoesNotExist`, line 150
except_ObjectDoesNotExist(exc) == exc = "ObjectDoesNotExist"

\* get_attribute(instance, attrs), lines 140-153, from attrs[i] on, after n
\* lookups.
RECURSIVE get_attribute_from(_, _, _, _)
get_attribute_from(instance, attrs, i, n) ==
    IF i > Len(attrs) THEN Return(instance, n)
    ELSE IF is_none(instance) THEN Return(None, n)
    ELSE LET r == lookup(instance, attrs[i]) IN
         IF r.t = "raise"
         THEN IF except_ObjectDoesNotExist(r.exc)
              THEN Return(None, n + 1)
              ELSE Raise(r.exc, n + 1)
         ELSE get_attribute_from(r.value, attrs, i + 1, n + 1)

get_attribute(instance, attrs) == get_attribute_from(instance, attrs, 1, 0)

\* The fields a model declares. ForeignKey and ManyToManyField are
\* RelatedField subclasses (forward relations); ManyToOneRel is a
\* ForeignObjectRel (a reverse relation); RichTextField is a field with
\* get_searchable_content.
FieldKinds == {"Field", "RichTextField", "ForeignKey", "ManyToManyField", "ManyToOneRel"}

\* isinstance(field, RelatedField), line 246
is_RelatedField(field) == field.kind \in {"ForeignKey", "ManyToManyField"}

\* hasattr(field, 'get_searchable_content'), line 213
has_get_searchable_content(field) == field.kind = "RichTextField"

\* field.get_searchable_content(value), line 214
get_searchable_content(value) == [k |-> "searchable", of |-> value]

\* field.attname, line 176: a foreign key stores <name>_id.
attname(field, name) ==
    IF field.kind = "ForeignKey" THEN name \o <<"_", "i", "d">> ELSE name

\* cls._meta.get_field(self.field_name), lines 171 and 241
get_field(meta, field_name) ==
    IF field_name \in DOMAIN meta
    THEN Return(meta[field_name], 0)
    ELSE Raise("FieldDoesNotExist", 0)

\* field.value_from_object(obj), line 211: the attribute named by the
\* field's attname; a reverse relation has no such method.
value_from_object(field, name, obj) ==
    IF field.kind = "ManyToOneRel"
    THEN Raise("AttributeError", 0)
    ELSE getattr(obj, attname(field, name))

\* BaseField.get_attname(self, cls), lines 173-178
get_attname(field, meta) ==
    LET f == get_field(meta, field.field_name) IN
    IF f.t = "raise" THEN field.field_name ELSE attname(f.value, field.field_name)

\* suffix, lines 157 and 229
suffix(cls) == IF cls = "FilterField" THEN <<"_", "f", "i", "l", "t", "e", "r">> ELSE <<>>

\* BaseField.get_index_name(self, cls), lines 180-186
BaseField_get_index_name(field, meta) ==
    LET index_name == IF field.alias = field.field_name
                      THEN get_attname(field, meta)
                      ELSE field.alias
    IN index_name \o suffix(field.cls)

\* RelatedFields.get_index_name(self, cls), lines 237-238
RelatedFields_get_index_name(field, meta) == field.field_name

\* BaseField.get_value(self, obj), lines 198-215
BaseField_get_value(field, meta, obj) ==
    LET f == get_field(meta, field.field_name) IN
    IF f.t = "raise"
    THEN \* getattr(obj, self.field_name, None), called when callable
         LET r == getattr(obj, field.field_name) IN
         IF r.t = "raise"
         THEN IF r.exc = "AttributeError" THEN Return(None, 1) ELSE r
         ELSE IF r.value.k = "callable"
              THEN Return(r.value.returns, 1)
              ELSE r
    ELSE LET v == IF Len(field.source_attrs) > 1
                  THEN get_attribute(obj, field.source_attrs)
                  ELSE value_from_object(f.value, field.field_name, obj)
         IN IF v.t = "raise" THEN v
            ELSE IF has_get_searchable_content(f.value)
                 THEN Return(get_searchable_content(v.value), v.lookups)
                 ELSE v

\* RelatedFields.get_value(self, obj), lines 243-247
RelatedFields_get_value(field, meta, obj) ==
    LET f == get_field(meta, field.field_name) IN
    IF f.t = "raise" THEN f
    ELSE IF is_RelatedField(f.value)
         THEN getattr(obj, field.field_name)
         ELSE Return(None, 0)

\* The models: x is not declared, or declared as a field of one kind.
Metas == {<<>>} \cup {SegName(1) :> [kind |-> kind] : kind \in FieldKinds}

\* What the instance of a model holds in x: any value for a plain field; the
\* related object, None or a dangling reference (and the key in x_id) for a
\* foreign key; the related manager for the other relations; and for a name
\* the model does not declare, nothing, a plain attribute or a method.
ObjectsFor(meta) ==
    LET x == SegName(1)
        values == ValuesAt(1)
        objects == {v \in values : v.k = "object"}
    IN IF x \notin DOMAIN meta
       THEN {Obj(<<>>)} \cup {Obj(x :> v) : v \in values \cup {Method(Str), Method(None)}}
       ELSE IF meta[x].kind \in {"Field", "RichTextField"}
       THEN {Obj(x :> v) : v \in values}
       ELSE IF meta[x].kind = "ForeignKey"
       THEN {Obj((x :> v) @@ (attname(meta[x], x) :> Pk)) :
                v \in objects \cup {None, Dangling}}
       ELSE {Obj(x :> v) : v \in objects}

\* x, x.y, x.y.z, ...: the dotted path of n segments.
RECURSIVE PathSource(_)
PathSource(n) ==
    IF n = 1 THEN SegName(1) ELSE PathSource(n - 1) \o <<".">> \o SegName(n)

\* The descriptors the model constructs.
ValueDeclarations ==
    {[cls |-> c, field_name |-> n, kwargs |-> kw] :
        c \in {"SearchField", "FilterField"}, n \in {<<"a">>, SegName(1)},
        kw \in {<<>>} \cup {[source |-> PathSource(len)] : len \in 1..MaxPath}}
    \cup {[cls |-> "RelatedFields", field_name |-> SegName(1)]}

ConstructField(d) ==
    /\ vfield' = Construct(1, d)
    /\ vdeclared' = d
    /\ vcall' = None
    /\ UNCHANGED <<vmeta, vobj, syncVars, typeVars, fieldVars>>

CallGetValue ==
    /\ vfield # None
    /\ vcall' = [fn |-> "get_value",
                 outcome |-> IF vfield.cls = "RelatedFields"
                             THEN RelatedFields_get_value(vfield, vmeta, vobj)
                             ELSE BaseField_get_value(vfield, vmeta, vobj)]
    /\ UNCHANGED <<vmeta, vobj, vfield, vdeclared, syncVars, typeVars, fieldVars>>

CallGetIndexName ==
    /\ vfield # None
    /\ vcall' = [fn |-> "get_index_name",
                 outcome |-> IF vfield.cls = "RelatedFields"
                             THEN Return(RelatedFields_get_index_name(vfield, vmeta), 0)
                             ELSE Return(BaseField_get_index_name(vfield, vmeta), 0)]
    /\ UNCHANGED <<vmeta, vobj, vfield, vdeclared, syncVars, typeVars, fieldVars>>

ValueInit ==
    /\ SyncIdle
    /\ TypesIdle
    /\ FieldsIdle
    /\ vmeta \in Metas
    /\ vobj \in ObjectsFor(vmeta)
    /\ vfield = None
    /\ vdeclared = None
    /\ vcall = None

ValueNext ==
    \/ \E d \in ValueDeclarations : ConstructField(d)
    \/ CallGetValue
    \/ CallGetIndexName

SpecValue == ValueInit /\ [][ValueNext]_vars

(***************************************************************************)
(* Claims about get_search_fields (checked under SpecFields)               *)
(***************************************************************************)
Positions == 1..Len(search_fields)

SameKey(i, j) ==
    /\ search_fields[i].cls = search_fields[j].cls
    /\ search_fields[i].field_name = search_fields[j].field_name

\* The positions at which a (kind, field_name) pair is seen for the first
\* time, and for the last time.
FirstSeen == {i \in Positions : \A j \in Positions : SameKey(i, j) => i <= j}
LastSeen == {i \in Positions : \A j \in Positions : SameKey(i, j) => j <= i}
LastOf(i) == CHOOSE j \in LastSeen : SameKey(i, j)

\* The first-seen positions in increasing order.
RECURSIVE Sorted(_)
Sorted(S) == IF S = {} THEN <<>> ELSE <<Min(S)>> \o Sorted(S \ {Min(S)})

OnePerKey ==
    /\ Len(fcall.value) = Cardinality(FirstSeen)
    /\ \A i, j \in 1..Len(fcall.value) :
          (/\ fcall.value[i].cls = fcall.value[j].cls
           /\ fcall.value[i].field_name = fcall.value[j].field_name) => i = j
    /\ \A p \in Positions :
          \E i \in 1..Len(fcall.value) : fcall.value[i] = search_fields[LastOf(p)]
    /\ \A i \in 1..Len(fcall.value) : \E p \in LastSeen : fcall.value[i] = search_fields[p]

\* C6 as stated: one descriptor per (kind, field_name) pair, the latest
\* declaration of the pair, at the position where the pair was first seen.
C6_DedupKeepsFirstSeenOrder ==
    fcall # None =>
        /\ OnePerKey
        /\ fcall.value = [i \in 1..Cardinality(FirstSeen) |->
                              search_fields[LastOf(Sorted(FirstSeen)[i])]]

\* C6, amended: one descriptor per (kind, field_name) pair, and it is the
\* latest declaration of the pair; the order of the result is not fixed.
C6_Dedup ==
    fcall # None => OnePerKey

\* A pair declared twice with another pair in between: the result has the
\* later declaration and not the earlier one.
C6_Witness ==
    /\ fcall # None
    /\ Len(search_fields) = 3
    /\ SameKey(1, 3) /\ ~SameKey(1, 2)
    /\ Len(fcall.value) = 2
    /\ \E i \in 1..2 : fcall.value[i] = search_fields[3]
    /\ \A i \in 1..2 : fcall.value[i] # search_fields[1]

\* C10: no descriptor is silently lost. A declared descriptor is absent from
\* the result only when a later descriptor of the same kind has the same
\* declared name.
C10_NoDescriptorLost ==
    fcall # None =>
        \A p \in Positions :
            (\A q \in Positions :
                (q > p /\ declared[q].cls = declared[p].cls)
                    => declared[q].field_name # declared[p].field_name)
            => \E i \in 1..Len(fcall.value) : fcall.value[i].id = p

(***************************************************************************)
(* Claims about value extraction (checked under SpecValue)                 *)
(***************************************************************************)
Found(value) == [found |-> TRUE, value |-> value]
Missing(why, at) == [found |-> FALSE, why |-> why, at |-> at]

\* What following path[i..] from cur finds: the value at the end of the
\* path, or the first segment that is missing and why: the value it is read
\* from is None ("none"), a mapping lacking the key ("key"), an object
\* lacking the attribute ("attribute"), or the relation read is dangling.
RECURSIVE Follow(_, _, _)
Follow(cur, path, i) ==
    IF i > Len(path) THEN Found(cur)
    ELSE IF cur = None THEN Missing("none", i)
    ELSE IF cur.k = "mapping"
         THEN IF path[i] \in DOMAIN cur.items
              THEN Follow(cur.items[path[i]], path, i + 1)
              ELSE Missing("key", i)
    ELSE IF cur.k = "object" /\ path[i] \in DOMAIN cur.attrs
         THEN IF cur.attrs[path[i]] = Dangling
              THEN Missing("dangling", i)
              ELSE Follow(cur.attrs[path[i]], path, i + 1)
    ELSE Missing("attribute", i)

\* The source path as declared: the declared source, or the declared name.
DeclaredPath ==
    Split(IF "source" \in DOMAIN vdeclared.kwargs
          THEN vdeclared.kwargs.source ELSE vdeclared.field_name, ".")

IsBaseField == vfield # None /\ vfield.cls \in {"SearchField", "FilterField"}
GetValueCalled == vcall # None /\ vcall.fn = "get_value"
GetIndexNameCalled == vcall # None /\ vcall.fn = "get_index_name"
FirstDeclared == DeclaredPath[1] \in DOMAIN vmeta
Returned(value) == vcall.outcome.t = "return" /\ vcall.outcome.value = value
Raised(exc) == vcall.outcome.t = "raise" /\ vcall.outcome.exc = exc

\* The value after the searchable-content transform of the declared field.
Transformed(value) ==
    IF vmeta[DeclaredPath[1]].kind = "RichTextField"
    THEN [k |-> "searchable", of |-> value]
    ELSE value

\* What the instance holds under the path's first segment, read as a plain
\* attribute: None when it has none, the result of the call for a method.
PlainAttribute ==
    IF DeclaredPath[1] \notin DOMAIN vobj.attrs THEN None
    ELSE IF vobj.attrs[DeclaredPath[1]].k = "callable"
         THEN vobj.attrs[DeclaredPath[1]].returns
         ELSE vobj.attrs[DeclaredPath[1]]

MultiSegmentMissing ==
    /\ IsBaseField
    /\ GetValueCalled
    /\ Len(DeclaredPath) > 1
    /\ ~Follow(vobj, DeclaredPath, 1).found

\* C7 as stated: for every path with a missing intermediate segment (a None,
\* a mapping lacking the key, an object lacking the attribute, a dangling
\* relation) get_value returns None and raises nothing.
C7_MissingSegmentIsAbsent ==
    MultiSegmentMissing => Returned(None)

\* C7, amended. With the first segment a declared field of the model: a None
\* or a dangling relation on the path stops the resolution at that segment
\* and yields None (handed to the field's searchable-content transform if it
\* has one); a mapping lacking the key raises KeyError and an object lacking
\* the attribute raises AttributeError, to the caller. With the first segment
\* not a declared field the path is not followed: the value is the plain
\* attribute of that name (None when there is none; a method's result).
C7_MissingSegment ==
    MultiSegmentMissing =>
        LET m == Follow(vobj, DeclaredPath, 1) IN
        IF FirstDeclared
        THEN /\ m.why = "none" =>
                   Returned(Transformed(None)) /\ vcall.outcome.lookups = m.at - 1
             /\ m.why = "dangling" =>
                   Returned(Transformed(None)) /\ vcall.outcome.lookups = m.at
             /\ m.why = "key" => Raised("KeyError")
             /\ m.why = "attribute" => Raised("AttributeError")
        ELSE Returned(PlainAttribute)

\* A path of three segments whose second segment is a dangling relation:
\* the resolution stops there and the result is None.
C7_Witness ==
    /\ MultiSegmentMissing
    /\ FirstDeclared
    /\ Len(DeclaredPath) = 3
    /\ Follow(vobj, DeclaredPath, 1) = Missing("dangling", 2)
    /\ Returned(None)
    /\ vcall.outcome.lookups = 2

AliasDeclared == IsBaseField /\ vdeclared.field_name # DeclaredPath[1]

AliasConstruction ==
    /\ vfield.field_name = DeclaredPath[1]
    /\ vfield.alias = vdeclared.field_name
    /\ vfield.source_attrs = DeclaredPath
    /\ GetIndexNameCalled =>
          Returned(vdeclared.field_name
                     \o (IF vdeclared.cls = "FilterField"
                         THEN <<"_", "f", "i", "l", "t", "e", "r">> ELSE <<>>))

\* C8 as stated: for a field whose declared name differs from the first
\* segment of its source path, field_name is the first segment, alias the
\* declared name, the index name alias + suffix, and get_value returns what
\* following the full source path on the instance finds, whether or not the
\* first segment is a declared field.
C8_AliasReadsFullPath ==
    AliasDeclared =>
        /\ AliasConstruction
        /\ (GetValueCalled /\ Follow(vobj, DeclaredPath, 1).found) =>
               Returned(Follow(vobj, DeclaredPath, 1).value)

\* C8, amended: the construction and the index name as stated. get_value
\* follows the full source path only when the first segment is a declared
\* field and the path has several segments; for a single segment it returns
\* the declared (forward) field's stored value, the attribute named by the
\* field's attname; in both cases through the field's searchable-content
\* transform if it has one. When the first segment is not a declared field
\* it returns the plain attribute of that name (None when there is none, a
\* method's result) and does not follow the rest of the path.
C8_Alias ==
    AliasDeclared =>
        /\ AliasConstruction
        /\ GetValueCalled =>
              IF ~FirstDeclared THEN Returned(PlainAttribute)
              ELSE IF Len(DeclaredPath) > 1
                   THEN Follow(vobj, DeclaredPath, 1).found =>
                            Returned(Transformed(Follow(vobj, DeclaredPath, 1).value))
                   ELSE vmeta[DeclaredPath[1]].kind # "ManyToOneRel" =>
                            LET stored == IF vmeta[DeclaredPath[1]].kind = "ForeignKey"
                                          THEN DeclaredPath[1] \o <<"_", "i", "d">>
                                          ELSE DeclaredPath[1]
                            IN Returned(Transformed(vobj.attrs[stored]))

\* An alias over a path of two segments on a declared field: the value at
\* the end of the path is returned.
C8_Witness ==
    /\ AliasDeclared
    /\ GetValueCalled
    /\ FirstDeclared
    /\ Len(DeclaredPath) = 2
    /\ Follow(vobj, DeclaredPath, 1) = Found(Str)
    /\ Returned(Str)
    /\ vfield.alias = <<"a">>

\* C9: RelatedFields.get_value returns the related object or collection
\* as-is when the name is a forward relation of the model, and None, raising
\* nothing, in every other case: a non-relation field, a reverse relation, a
\* name the model does not declare.
C9_RelatedFieldsValue ==
    (GetValueCalled /\ vfield.cls = "RelatedFields") =>
        IF /\ vfield.field_name \in DOMAIN vmeta
           /\ vmeta[vfield.field_name].kind \in {"ForeignKey", "ManyToManyField"}
        THEN vobj.attrs[vfield.field_name] # Dangling =>
                 Returned(vobj.attrs[vfield.field_name])
        ELSE Returned(None)

(***************************************************************************)
(* Claims about the content types (checked under SpecTypes)                *)
(***************************************************************************)
\* The positions, among the bases of c, of the classes that implement
\* Indexed and are model classes (abstract or not).
ModelParents(c) ==
    {i \in 1..Len(classes[c].bases) :
        /\ IndexedId \in Ancestors(classes[c].bases[i])
        /\ ModelId \in Ancestors(classes[c].bases[i])}

\* The same, of the classes that are concrete (non-abstract) models.
ConcreteParents(c) ==
    {i \in ModelParents(c) : ~classes[classes[c].bases[i]].abstract}

\* The specialization chain of c, root first, following at each class the
\* first base in declaration order that is an Indexed model class.
RECURSIVE Chain(_)
Chain(c) ==
    IF ModelParents(c) = {} THEN <<c>>
    ELSE Append(Chain(classes[c].bases[Min(ModelParents(c))]), c)

\* The chain that follows only concrete models.
RECURSIVE ConcreteChain(_)
ConcreteChain(c) ==
    IF ConcreteParents(c) = {} THEN <<c>>
    ELSE Append(ConcreteChain(classes[c].bases[Min(ConcreteParents(c))]), c)

\* The local content type: lowercased app label, "_", lowercased class name.
LocalType(c) == Lower(classes[c].app_label) \o <<"_">> \o Lower(classes[c].name)

\* The local content types of a chain, joined by "_".
RECURSIVE JoinLocals(_)
JoinLocals(chain) ==
    IF Len(chain) = 1 THEN LocalType(chain[1])
    ELSE JoinLocals(SubSeq(chain, 1, Len(chain) - 1))
             \o <<"_">> \o LocalType(chain[Len(chain)])

Underscores(str) == Cardinality({i \in 1..Len(str) : str[i] = "_"})

ContentTypeCalled == tcall # None /\ tcall.fn = "indexed_get_content_type"
ToplevelCalled == tcall # None /\ tcall.fn = "indexed_get_toplevel_content_type"

\* C4: indexed_get_toplevel_content_type reports the root ancestor's local
\* content type, whatever the depth of the chain.
C4_ToplevelIsRoot ==
    ToplevelCalled => tcall.value = LocalType(Chain(tcall.cls)[1])

\* C5: the content type of a class is the local content types of its
\* specialization chain, root first, joined by "_": one local segment per
\* level. The chain follows, at each class, the first base in declaration
\* order that implements Indexed and is a model class, abstract or not.
C5_ContentTypeChain ==
    ContentTypeCalled =>
        /\ tcall.value = JoinLocals(Chain(tcall.cls))
        /\ Underscores(tcall.value) = 2 * Len(Chain(tcall.cls)) - 1

\* A three-level chain A -> B -> C.
C5_Witness ==
    /\ ContentTypeCalled
    /\ Len(Chain(tcall.cls)) = 3
    /\ tcall.value = LocalType(Chain(tcall.cls)[1]) \o <<"_">>
                       \o LocalType(Chain(tcall.cls)[2]) \o <<"_">>
                       \o LocalType(tcall.cls)

\* C5 as stated: the chain follows only concrete (non-abstract) models.
C5_ConcreteParentOnly ==
    ContentTypeCalled =>
        /\ tcall.value = JoinLocals(ConcreteChain(tcall.cls))
        /\ Underscores(tcall.value) = 2 * Len(ConcreteChain(tcall.cls)) - 1

(***************************************************************************)
(* Claims about the synchronizer (checked under SpecSync)                  *)
(***************************************************************************)
\* The instance handed to the handler passes the checks the handler makes.
PassesChecks ==
    /\ event # None
    /\ event.instance.specific # None
    /\ event.op = "save" =>
           <<event.instance.specific.type, event.instance.specific.pk>> \in store

BackendOp == IF event.op = "save" THEN "add" ELSE "delete"

Done == pc = "idle" /\ result # "none"

C2_SaveGuard ==
    (/\ event # None
     /\ event.op = "save"
     /\ \/ event.instance.specific = None
        \/ <<event.instance.specific.type, event.instance.specific.pk>> \notin store)
    => /\ calls = <<>>
       /\ logged = <<>>
       /\ pc = "idle"
       /\ result = "returned"

\* The instance passed in is stored under its own class, its canonical
\* instance (of another class) is not: nothing is added.
C2_Witness ==
    /\ event # None
    /\ event.op = "save"
    /\ event.instance.specific # None
    /\ event.instance.specific.type # event.instance.type
    /\ <<event.instance.type, event.instance.pk>> \in store
    /\ <<event.instance.type, event.instance.specific.pk>> \in store
    /\ <<event.instance.specific.type, event.instance.specific.pk>> \notin store
    /\ backends # <<>>
    /\ calls = <<>>
    /\ result = "returned"

\* C3: onDelete makes no existence check. The object store is never queried
\* during remove_object, and delete(canonical instance) is issued to every
\* active backend whether or not the row still exists.
C3_DeleteSkipsExistenceCheck ==
    (event # None /\ event.op = "delete") =>
        /\ queries = 0
        /\ event.instance.specific # None =>
              /\ indexed = event.instance.specific
              /\ result # "returned" => pc = "delete"
              /\ Done =>
                    /\ Len(calls) = Len(backends)
                    /\ \A i \in 1..Len(calls) :
                          /\ calls[i].op = "delete"
                          /\ calls[i].backend = backends[i]
                          /\ calls[i].instance = event.instance.specific

\* The row is gone from storage and every backend received the delete.
C3_Witness ==
    /\ event # None
    /\ event.op = "delete"
    /\ event.instance.specific # None
    /\ <<event.instance.specific.type, event.instance.specific.pk>> \notin store
    /\ Done
    /\ Len(backends) >= 2
    /\ Len(calls) = Len(backends)
    /\ \A i \in 1..Len(calls) : calls[i].op = "delete"

=============================================================================
